---- MODULE Spec2Model ----
(***************************************************************************)
(* Model of themisir/ball-phys: src/src/main.rs (Ball, the frame loop of   *)
(* main) and src/src/phys.rs (Circle/Ground interaction).                  *)
(*                                                                         *)
(* Numbers.  Every f32 of the program is a fixed-point integer counted in  *)
(* 1/Unit of a world unit; masses are kept in whole world units and the    *)
(* frame time in 1/DtDen of a second.  The inputs are drawn from a dyadic  *)
(* grid on which every addition, halving, product and quotient the code    *)
(* performs is exact, so the integer result is the f32 result.  f32        *)
(* rounding outside that grid is not modelled.  A vector carries a nan     *)
(* flag: 0.0/0.0 is NaN, NaN propagates through arithmetic and every       *)
(* comparison with NaN is false.                                           *)
(***************************************************************************)
EXTENDS Integers, Sequences, FiniteSets, TLC

VARIABLES
    balls,       \* main: the Vec<Ball>, a function 0..n-1 -> Ball
    idx,         \* main: the index i of the `for i in 0..balls.len()` loop
    dt,          \* main: the dt of the current frame, in 1/DtDen s
    frame,       \* number of frames started
    frameStart,  \* history: balls at the start of the current frame
    streak,      \* history: per ball, consecutive updates that ended below the threshold
    quals,       \* history: per ball, updates that ended below the threshold since creation or wake
    elapsed,     \* history: the sum of the dt of the frames started, in 1/DtDen s
    hits,        \* history: asleep balls struck this frame with post-collision speed above the threshold
    op,          \* function runs: the last operation applied
    trail,       \* function runs: the bodies before each operation applied
    pv,          \* function runs: the Option<Vector2> collides() returned
    shape,       \* function runs: the Circle and the Ground given to interact
    res          \* function runs: the Option<Vector2> interact returned

vars == <<balls, idx, dt, frame, frameStart, streak, quals, elapsed, hits, op, trail, pv, shape, res>>

(***************************************************************************)
(* Units and program constants                                             *)
(***************************************************************************)
Unit == 2^13                 \* fixed-point resolution of an f32 field
DtDen == 8                   \* dt is counted in eighths of a second
DAMPING == 1
FreezingThresholdDen == 10000     \* FREEZING_THRESHOLD = 1e-4 = 1/10000
GravityY == -980
InitialFreezing == 10
ArenaRight == 640
ArenaTop == 480

MaxFrames == 15

(***************************************************************************)
(* Vector2 (raylib-rs), with NaN                                           *)
(***************************************************************************)
Abs(x) == IF x < 0 THEN -x ELSE x

Vec(x, y) == [x |-> x, y |-> y, nan |-> FALSE]
NaNVec == [x |-> 0, y |-> 0, nan |-> TRUE]
ZeroVec == Vec(0, 0)
IsZero(v) == ~v.nan /\ v.x = 0 /\ v.y = 0

VAdd(a, b) == IF a.nan \/ b.nan THEN NaNVec ELSE Vec(a.x + b.x, a.y + b.y)
VSub(a, b) == IF a.nan \/ b.nan THEN NaNVec ELSE Vec(a.x - b.x, a.y - b.y)
\* v * s / d for a scalar s/d
VScale(v, s, d) == IF v.nan THEN NaNVec ELSE Vec((v.x * s) \div d, (v.y * s) \div d)

RECURSIVE Gcd(_, _)
Gcd(a, b) == IF b = 0 THEN a ELSE Gcd(b, a % b)

RECURSIVE SqrtBetween(_, _, _)
\* the largest r in lo..hi with r*r <= n
SqrtBetween(n, lo, hi) ==
    IF lo >= hi THEN lo
    ELSE LET mid == (lo + hi + 1) \div 2
         IN  IF mid * mid <= n THEN SqrtBetween(n, mid, hi)
             ELSE SqrtBetween(n, lo, mid - 1)

ISqrt(n) == SqrtBetween(n, 0, IF n < 46340 THEN n ELSE 46340)

\* Vector2::length of a vector that is not NaN: sqrt(x*x + y*y)
Length(v) ==
    LET g == Gcd(Abs(v.x), Abs(v.y))
    IN  IF g = 0 THEN 0
        ELSE g * ISqrt((v.x \div g) * (v.x \div g) + (v.y \div g) * (v.y \div g))

\* Vector2::normalized: *self / self.length().  The unit vector is kept as
\* the rational (x, y) / den; the zero vector gives 0.0 / 0.0 = NaN.
Normalized(v) ==
    IF v.nan \/ IsZero(v) THEN [x |-> 0, y |-> 0, den |-> 1, nan |-> TRUE]
    ELSE LET g == Gcd(Abs(v.x), Abs(v.y))
         IN  [x |-> v.x \div g, y |-> v.y \div g, den |-> Length(v) \div g, nan |-> FALSE]

\* normal * s
NScale(n, s) == IF n.nan THEN NaNVec ELSE Vec((n.x * s) \div n.den, (n.y * s) \div n.den)
\* v.dot(normal), v not NaN
NDot(v, n) == (v.x * n.x + v.y * n.y) \div n.den
\* Vector2::new(-normal.y, normal.x)
Tangent(n) == [x |-> -n.y, y |-> n.x, den |-> n.den, nan |-> n.nan]

\* v.length() < FREEZING_THRESHOLD and v.length() > FREEZING_THRESHOLD
SpeedBelowThreshold(v) == ~v.nan /\ Length(v) <= (Unit - 1) \div FreezingThresholdDen
SpeedAboveThreshold(v) == ~v.nan /\ Length(v) > Unit \div FreezingThresholdDen

(***************************************************************************)
(* Ball                                                                    *)
(***************************************************************************)
\* faulty variant of NewBall: the wake-budget starts one short
NewBallBudgetNine(id, center, radius) ==
    [id |-> id, center |-> center, radius |-> radius, mass |-> radius \div Unit,
     velocity |-> ZeroVec, freezing |-> InitialFreezing - 1]

NewBall(id, center, radius) ==
    [id |-> id, center |-> center, radius |-> radius, mass |-> radius \div Unit,
     velocity |-> ZeroVec, freezing |-> InitialFreezing]

None == [some |-> FALSE, v |-> ZeroVec]
Some(v) == [some |-> TRUE, v |-> v]

\* intersection > f32::EPSILON: EPSILON = 2^-23 is below the grid step 1/Unit,
\* so on the grid the test is intersection > 0
AboveEpsilon(x) == x > 0

\* Ball::collides
Collides(self, other) ==
    LET direction == VSub(other.center, self.center)
    IN  IF direction.nan THEN Some(NaNVec)
        ELSE LET intersection == Length(direction) - (other.radius + self.radius)
             IN  IF AboveEpsilon(intersection) THEN None
                 ELSE Some(NScale(Normalized(direction), intersection))

\* faulty variant of HalfD: each body moves a quarter of the penetration
HalfDQuarter(v) == VScale(v, 1, 4)

\* let half_d = v / 2.0
HalfD(v) == VScale(v, 1, 2)

\* faulty variant of Momentum: the own mass in place of the other's
MomentumOwnMass(dnSelf, dnOther, mSelf, mOther) ==
    (dnSelf * (mSelf - mOther) + 2 * mSelf * dnOther) \div (mSelf + mOther)

\* (dot_normal_self * (self.mass - other.mass) + 2.0 * other.mass * dot_normal_other) / total_mass
Momentum(dnSelf, dnOther, mSelf, mOther) ==
    (dnSelf * (mSelf - mOther) + 2 * mOther * dnOther) \div (mSelf + mOther)

\* the velocities after the dynamic collision: [self, other]
Velocities(self, other, v) ==
    LET normal == Normalized(v)
        tangent == Tangent(normal)
    IN  IF normal.nan \/ self.velocity.nan \/ other.velocity.nan
        THEN [self |-> NaNVec, other |-> NaNVec]
        ELSE LET dotTanSelf == NDot(self.velocity, tangent)
                 dotTanOther == NDot(other.velocity, tangent)
                 dotNormalSelf == NDot(self.velocity, normal)
                 dotNormalOther == NDot(other.velocity, normal)
                 momentumSelf == Momentum(dotNormalSelf, dotNormalOther, self.mass, other.mass)
                 momentumOther == Momentum(dotNormalOther, dotNormalSelf, other.mass, self.mass)
             IN  [self |-> VAdd(NScale(tangent, dotTanSelf), NScale(normal, momentumSelf)),
                  other |-> VAdd(NScale(tangent, dotTanOther), NScale(normal, momentumOther))]

\* faulty variant of WakeFreezing: the speed tested is the striking body's
WakeFreezingBySelf(freezing, selfVelocity, otherVelocity) ==
    IF freezing < 0 /\ SpeedAboveThreshold(selfVelocity) THEN InitialFreezing ELSE freezing

\* if other.freezing < 0 && other.velocity.length() > FREEZING_THRESHOLD { other.freezing = 10 }
WakeFreezing(freezing, selfVelocity, otherVelocity) ==
    IF freezing < 0 /\ SpeedAboveThreshold(otherVelocity) THEN InitialFreezing ELSE freezing

\* Ball::apply_collision: [self, other]
ApplyCollision(self, v, other) ==
    LET halfD == HalfD(v)
        vel == Velocities(self, other, v)
    IN  [self |-> [self EXCEPT !.center = VAdd(self.center, halfD),
                               !.velocity = vel.self],
         other |-> [other EXCEPT !.center = VSub(other.center, halfD),
                                 !.velocity = vel.other,
                                 !.freezing = WakeFreezing(other.freezing, vel.self, vel.other)]]

\* f32::signum: 1.0 for +0.0 and positive numbers, -1.0 for negative ones
Signum(x) == IF x < 0 THEN -1 ELSE 1

\* faulty variant of BeyondWall: >= in place of >
BeyondWallInclusive(pos, half) == Abs(pos) >= half

\* |pos| > half_bounding_size on one axis
BeyondWall(pos, half) == Abs(pos) > half

\* Ball::resolve_bounding; left, bottom, right, top in fixed point
ResolveBounding(ball, left, bottom, right, top) ==
    LET midX == (right + left) \div 2
        midY == (top + bottom) \div 2
        halfX == (right - left) \div 2 - ball.radius
        halfY == (top - bottom) \div 2 - ball.radius
        c == ball.center
        w == ball.velocity
        flipX == ~c.nan /\ BeyondWall(c.x - midX, halfX)
        flipY == ~c.nan /\ BeyondWall(c.y - midY, halfY)
        cx == IF flipX THEN halfX * Signum(c.x - midX) + midX ELSE c.x
        cy == IF flipY THEN halfY * Signum(c.y - midY) + midY ELSE c.y
        wx == IF flipX THEN w.x * (-1) * DAMPING ELSE w.x
        wy == IF flipY THEN w.y * (-1) * DAMPING ELSE w.y
    IN  [ball EXCEPT !.center = IF c.nan THEN c ELSE Vec(cx, cy),
                     !.velocity = IF w.nan THEN w ELSE Vec(wx, wy)]

\* self.velocity += GRAVITY * dt; self.center += self.velocity * dt
Integrate(self, d) ==
    LET w == VAdd(self.velocity, Vec(0, (GravityY * Unit * d) \div DtDen))
    IN  [self EXCEPT !.velocity = w, !.center = VAdd(self.center, VScale(w, d, DtDen))]

\* if self.velocity.length() < FREEZING_THRESHOLD { self.freezing -= 1 }
Cool(self) ==
    IF SpeedBelowThreshold(self.velocity) THEN [self EXCEPT !.freezing = self.freezing - 1]
    ELSE self

RECURSIVE CollideAll(_, _, _, _)
\* the `for ball in balls` loop of Ball::update from index j on:
\* [self, balls, hits]
CollideAll(self, bs, j, struck) ==
    IF j \notin DOMAIN bs THEN [self |-> self, balls |-> bs, hits |-> struck]
    ELSE IF self.id = bs[j].id THEN CollideAll(self, bs, j + 1, struck)
    ELSE LET c == Collides(self, bs[j])
         IN  IF ~c.some THEN CollideAll(self, bs, j + 1, struck)
             ELSE LET r == ApplyCollision(self, c.v, bs[j])
                      hit == bs[j].freezing < 0 /\ SpeedAboveThreshold(r.other.velocity)
                  IN  CollideAll(r.self, [bs EXCEPT ![j] = r.other], j + 1,
                                 IF hit THEN struck \cup {j} ELSE struck)

\* Ball::update on the copy `ball` of balls[i], then balls[i] = ball:
\* [balls, hits]
Update(i, d, bs) ==
    IF bs[i].freezing < 0 THEN [balls |-> bs, hits |-> {}]
    ELSE LET moved == Integrate(bs[i], d)
             r == CollideAll(moved, bs, 0, {})
             bounded == ResolveBounding(r.self, 0, 0, ArenaRight * Unit, ArenaTop * Unit)
         IN  [balls |-> [r.balls EXCEPT ![i] = Cool(bounded)], hits |-> r.hits]

\* the Circle and Ground of a run that gives none to interact
NoShape == [circle |-> [position |-> ZeroVec, radius |-> 0],
            ground |-> [position |-> ZeroVec, rotation |-> 0]]

(***************************************************************************)
(* The frame loop of main                                                  *)
(***************************************************************************)
NumBalls == Cardinality(DOMAIN balls)

\* the scenes a run starts from: per ball <<height y, radius>> in world units,
\* every ball fully inside the arena on the column x = 320 (main places the
\* balls at random and does not keep them from overlapping)
Layouts ==
    { << <<20, 20>> >>, << <<100, 20>> >>,
      << <<20, 20>>, <<120, 20>> >>, << <<120, 20>>, <<20, 20>> >>,
      << <<20, 20>>, <<52, 20>> >>, << <<444, 20>>, <<460, 20>> >>,
      << <<60, 60>>, <<132, 20>> >>,
      << <<20, 20>>, <<120, 20>>, <<300, 20>> >> }

InitLoop ==
    /\ \E l \in Layouts :
          balls = [i \in 0..(Len(l) - 1) |->
                     NewBall(i, Vec(320 * Unit, l[i + 1][1] * Unit), l[i + 1][2] * Unit)]
    /\ idx = NumBalls
    /\ dt = 0
    /\ frame = 0
    /\ frameStart = balls
    /\ streak = [i \in DOMAIN balls |-> 0]
    /\ quals = [i \in DOMAIN balls |-> 0]
    /\ elapsed = 0
    /\ hits = {}
    /\ op = "loop"
    /\ trail = <<>>
    /\ pv = None
    /\ shape = NoShape
    /\ res = None

DtSet == {0, 1}

\* let dt = clock.tick(): a new frame starts
Tick ==
    /\ idx = NumBalls
    /\ frame < MaxFrames
    /\ \E d \in DtSet : dt' = d /\ elapsed' = elapsed + d
    /\ idx' = 0
    /\ frame' = frame + 1
    /\ frameStart' = balls
    /\ hits' = {}
    /\ UNCHANGED <<balls, streak, quals, op, trail, pv, shape, res>>

\* one iteration of `for i in 0..balls.len()`
Step ==
    /\ idx < NumBalls
    /\ \E u \in {Update(idx, dt, balls)} :
         \E below \in {SpeedBelowThreshold(u.balls[idx].velocity)} :
           /\ balls' = u.balls
           /\ hits' = hits \cup u.hits
           /\ streak' = [streak EXCEPT ![idx] =
                           IF balls[idx].freezing < 0 THEN @ ELSE IF below THEN @ + 1 ELSE 0]
           /\ quals' = [j \in DOMAIN balls |->
                           IF j \in u.hits THEN 0
                           ELSE IF j = idx /\ balls[idx].freezing >= 0 /\ below THEN quals[j] + 1
                           ELSE quals[j]]
    /\ idx' = idx + 1
    /\ UNCHANGED <<dt, frame, frameStart, elapsed, op, trail, pv, shape, res>>

Next == Tick \/ Step

Spec == InitLoop /\ [][Next]_vars

(***************************************************************************)
(* phys.rs: Circle against Ground                                          *)
(***************************************************************************)
\* f32::sin and f32::cos of a rotation counted in quarter turns
Sin(q) == CASE q % 4 = 0 -> 0 [] q % 4 = 1 -> 1 [] q % 4 = 2 -> 0 [] OTHER -> -1
Cos(q) == Sin(q + 1)

\* faulty variant of GroundNormal: (cos, sin)
GroundNormalCosSin(rotation) == Vec(Cos(rotation), Sin(rotation))

\* let d = Vector2::from(other.rotation.sin_cos()): sin_cos returns (sin, cos)
GroundNormal(rotation) == Vec(Sin(rotation), Cos(rotation))

\* <Circle as Collides<Ground>>::interact
Interact(circle, ground) ==
    LET d == GroundNormal(ground.rotation)
        v == VSub(circle.position, ground.position)
        p == VScale(d, v.x * d.x + v.y * d.y, 1)
        intersection == Length(p) - circle.radius
    IN  IF AboveEpsilon(intersection) THEN None
        ELSE Some(NScale(Normalized(p), -intersection))

(***************************************************************************)
(* The functions applied to enumerated inputs                              *)
(***************************************************************************)
Body(center, radius, mass, velocity, freezing) ==
    [id |-> 0, center |-> center, radius |-> radius, mass |-> mass,
     velocity |-> velocity, freezing |-> freezing]

W(x, y) == Vec(x * Unit, y * Unit)     \* a vector given in world units

\* other.center - self.center: coincident, overlapping, touching and apart,
\* along the axes and along 3-4-5 directions
Offsets ==
    { W(0, 0), W(39, 0), W(40, 0), W(-30, 0), W(0, 25), W(0, -40), W(50, 0),
      W(24, 32), W(18, 24), W(-24, 18), W(12, -16), W(30, 40) }
\* velocity components, multiples of 375 so that every quotient by
\* the length of a 3-4-5 normal and by the total mass is exact
Speeds == {0, 375, -750}
Masses == {20, 40}

\* the scenario of the specification: radius 20, masses 20 and 40, distance
\* 39 along x, speeds 100 and -50
Scenario ==
    (0 :> Body(W(100, 100), 20 * Unit, 20, W(100, 0), 10)) @@
    (1 :> [Body(W(139, 100), 20 * Unit, 40, W(-50, 0), 10) EXCEPT !.id = 1])

CollideInputs ==
    { (0 :> Body(W(100, 100), 20 * Unit, ma, W(ax, ay), 10)) @@
      (1 :> [Body(VAdd(W(100, 100), o), 20 * Unit, mb, W(bx, by), 10) EXCEPT !.id = 1]) :
        o \in Offsets, ma \in Masses, mb \in Masses,
        ax \in Speeds, ay \in Speeds, bx \in Speeds, by \in {0, 375} }
    \cup {Scenario}
    \* an asleep body (at rest) as the struck one
    \cup { (0 :> Body(W(100, 100), 20 * Unit, ma, W(ax, ay), 10)) @@
           (1 :> [Body(VAdd(W(100, 100), o), 20 * Unit, mb, ZeroVec, -1) EXCEPT !.id = 1]) :
             o \in Offsets, ma \in Masses, mb \in Masses, ax \in Speeds, ay \in Speeds }

BoundInputs ==
    { (0 :> Body(W(x, y), r * Unit, r, W(vx, vy), 10)) :
        x \in {-10, 20, 320, 620, 650}, y \in {-10, 20, 240, 460, 500},
        r \in {20, 240, 320}, vx \in {-5, 0, 5}, vy \in {-5, 0, 5} }

ShapeInputs ==
    { [circle |-> [position |-> W(x, y), radius |-> r * Unit],
       ground |-> [position |-> g, rotation |-> q]] :
        x \in {-30, 0, 25}, y \in {-30, 0, 25}, r \in {5, 20},
        g \in {W(0, 0), W(10, -5)}, q \in 0..3 }

InitFn ==
    /\ \/ balls \in CollideInputs /\ shape = NoShape
       \/ balls \in BoundInputs /\ shape = NoShape
       \/ balls = <<>> /\ shape \in ShapeInputs
    /\ idx = NumBalls
    /\ dt = 0
    /\ frame = 0
    /\ frameStart = balls
    /\ streak = [i \in DOMAIN balls |-> 0]
    /\ quals = [i \in DOMAIN balls |-> 0]
    /\ elapsed = 0
    /\ hits = {}
    /\ op = "init"
    /\ trail = <<>>
    /\ pv = None
    /\ res = None

\* if let Some(v) = self.collides(ball) { self.apply_collision(v, ball) }
Collide ==
    /\ op = "init"
    /\ NumBalls = 2
    /\ LET c == Collides(balls[0], balls[1])
       IN  /\ c.some
           /\ pv' = c
           /\ LET r == ApplyCollision(balls[0], c.v, balls[1])
              IN  balls' = (0 :> r.self) @@ (1 :> r.other)
    /\ op' = "collide"
    /\ trail' = Append(trail, balls)
    /\ UNCHANGED <<idx, dt, frame, frameStart, streak, quals, elapsed, hits, shape, res>>

\* self.resolve_bounding(0.0, 0.0, 640.0, 480.0), up to twice in succession
Bound ==
    /\ op \in {"init", "bound"}
    /\ NumBalls = 1
    /\ Len(trail) < 2
    /\ balls' = (0 :> ResolveBounding(balls[0], 0, 0, ArenaRight * Unit, ArenaTop * Unit))
    /\ op' = "bound"
    /\ trail' = Append(trail, balls)
    /\ UNCHANGED <<idx, dt, frame, frameStart, streak, quals, elapsed, hits, pv, shape, res>>

\* circle.interact(&ground)
InteractStep ==
    /\ op = "init"
    /\ shape # NoShape
    /\ res' = Interact(shape.circle, shape.ground)
    /\ op' = "interact"
    /\ UNCHANGED <<balls, idx, dt, frame, frameStart, streak, quals, elapsed, hits, trail, pv, shape>>

NextFn == Collide \/ Bound \/ InteractStep

SpecFn == InitFn /\ [][NextFn]_vars

(***************************************************************************)
(* Claims about the functions (checked under SpecFn)                       *)
(***************************************************************************)
Collided == op = "collide"
Before == trail[1]                 \* the bodies given to the first operation
RadiusSum == balls[0].radius + balls[1].radius
Distance(bs) == Length(VSub(bs[1].center, bs[0].center))

\* C1: two bodies with distinct centers in contact are, after one
\* apply_collision with the vector collides() returned, at a center distance
\* of at least the sum of the radii minus epsilon: the distance is the sum of
\* the radii, whatever the masses and velocities.
C1_SeparatedAfterCollision ==
    (Collided /\ Before[0].center # Before[1].center) =>
        /\ ~balls[0].center.nan /\ ~balls[1].center.nan
        /\ ~AboveEpsilon(RadiusSum - Distance(balls))
        /\ Distance(balls) = RadiusSum

C1_Witness ==
    /\ Collided
    /\ Distance(Before) < RadiusSum /\ Distance(Before) > 0
    /\ Before[0].center.x # Before[1].center.x /\ Before[0].center.y # Before[1].center.y
    /\ Before[0].mass # Before[1].mass
    /\ ~IsZero(Before[0].velocity)

\* the component of w along the contact normal n
Along(w, n) == NDot(w, n)
NormalMomentum(bs, n) ==
    bs[0].mass * Along(bs[0].velocity, n) + bs[1].mass * Along(bs[1].velocity, n)

C5_BoundingIdempotent ==
    (op = "bound" /\ Len(trail) = 2
       /\ 2 * balls[0].radius <= ArenaRight * Unit /\ 2 * balls[0].radius <= ArenaTop * Unit) =>
        balls = trail[2]

C5_Witness ==
    /\ op = "bound" /\ Len(trail) = 2
    /\ 2 * balls[0].radius <= ArenaTop * Unit
    /\ trail[2][0].center.x # trail[1][0].center.x
    /\ trail[2][0].center.y # trail[1][0].center.y
    /\ trail[2][0].velocity.x = -trail[1][0].velocity.x /\ trail[1][0].velocity.x # 0
    /\ trail[2][0].velocity.y = -trail[1][0].velocity.y /\ trail[1][0].velocity.y # 0

\* the circle-plane contact for a plane with unit normal n, by the signed
\* distance s of the circle's center from the plane: contact when
\* |s| - radius <= epsilon, penetration vector n * sign(s) * (radius - |s|)
\* (undefined, NaN, for s = 0)
PlaneContact(n, circle, ground) ==
    LET s == (circle.position.x - ground.position.x) * n.x
             + (circle.position.y - ground.position.y) * n.y
    IN  IF Abs(s) - circle.radius > 0 THEN None
        ELSE IF s = 0 THEN Some(NaNVec)
        ELSE Some(Vec(n.x * Signum(s) * (circle.radius - Abs(s)),
                      n.y * Signum(s) * (circle.radius - Abs(s))))

\* C6 as stated: interact uses the plane normal n = (cos(rotation),
\* sin(rotation)): p = n * dot(position - plane.position, n), contact when
\* length(p) - radius <= epsilon, result normalize(p) * -intersection.
C6_NormalIsCosSin ==
    op = "interact" =>
        res = PlaneContact(Vec(Cos(shape.ground.rotation), Sin(shape.ground.rotation)),
                           shape.circle, shape.ground)

\* C6 amended: interact does so with the plane normal
\* n = (sin(rotation), cos(rotation)), the order sin_cos() returns.
C6_NormalIsSinCos ==
    op = "interact" =>
        res = PlaneContact(Vec(Sin(shape.ground.rotation), Cos(shape.ground.rotation)),
                           shape.circle, shape.ground)

C6_Witness ==
    /\ op = "interact" /\ res.some /\ ~res.v.nan /\ ~IsZero(res.v)
    /\ shape.ground.rotation = 1
    /\ shape.ground.position # ZeroVec

\* C8: an Asleep body is a static obstacle: a collision resolved against a
\* body that is Asleep before it and still Asleep after it leaves that body's
\* position unchanged (stated for the collisions that leave no NaN in it, so
\* that the normalisation of a zero vector plays no part).
C8_AsleepBodyIsStatic ==
    (Collided /\ Before[1].freezing < 0 /\ balls[1].freezing < 0
       /\ ~balls[1].center.nan /\ ~balls[1].velocity.nan) =>
        balls[1].center = Before[1].center

\* C9: with coincident centers collides() returns a well-defined vector and
\* apply_collision leaves both bodies with well-defined positions and
\* velocities: no NaN enters the body state.
C9_CoincidentCentersWellDefined ==
    (Collided /\ Before[0].center = Before[1].center) =>
        /\ ~pv.v.nan
        /\ \A i \in DOMAIN balls : ~balls[i].center.nan /\ ~balls[i].velocity.nan

(***************************************************************************)
(* Claims about the frame loop (checked under Spec)                        *)
(***************************************************************************)
FrameEnd == idx = NumBalls
Asleep(b) == b.freezing < 0
\* a single body that has received no gravity: every frame so far had dt = 0
RestingAlone == NumBalls = 1 /\ elapsed = 0

C4_WakeOnImpact ==
    [][ /\ (idx' = NumBalls) => \A j \in hits' : balls'[j].freezing >= 0
        /\ \A j \in DOMAIN balls :
              (balls[j].freezing < 0 /\ balls'[j].freezing >= 0) =>
                  /\ j \in hits' \ hits
                  /\ j # idx
                  /\ balls'[j].freezing = InitialFreezing ]_vars

C4_Witness == FrameEnd /\ hits # {}

\* C7: a body is Asleep only after ten consecutive updates that ended with
\* its speed below the freezing threshold.
C7_AsleepOnlyAfterTenConsecutive ==
    \A j \in DOMAIN balls : Asleep(balls[j]) => streak[j] >= 10

\* C8, over a whole frame: a body Asleep at the start and at the end of a
\* frame has the position it had at the start of the frame.
C8_AsleepBodyKeepsPositionOverFrame ==
    FrameEnd =>
        \A j \in DOMAIN balls :
            (Asleep(frameStart[j]) /\ Asleep(balls[j])) =>
                balls[j].center = frameStart[j].center

\* the center lies in the arena shrunk by the radius on both axes
InsideArena(b) ==
    /\ ~b.center.nan
    /\ b.radius <= b.center.x /\ b.center.x <= ArenaRight * Unit - b.radius
    /\ b.radius <= b.center.y /\ b.center.y <= ArenaTop * Unit - b.radius

\* C10: at the end of every frame every body is inside the arena shrunk by
\* its radius.
C10_EveryBodyInsideArena ==
    FrameEnd => \A j \in DOMAIN balls : InsideArena(balls[j])

====
